---------------------------- MODULE Spec2Model ----------------------------
(***************************************************************************)
(* Grey Wolf Optimizer (src/main.py): class GWO, __init__ and optimize().  *)
(*                                                                         *)
(* Coordinates live on the integer grid.  Scores are integers, with Inf    *)
(* standing for float("inf").  The coefficient a = 2 - t*(2/max_iter) is    *)
(* kept as its numerator over the denominator max_iter.  The uniform draws *)
(* of the constructor and of the position update are multiples of         *)
(* 1/DrawDen; a coordinate is computed exactly from the draws and then     *)
(* rounded to the nearest grid point.                                      *)
(* NaN fitness values and floating-point rounding are not modelled.        *)
(***************************************************************************)
EXTENDS Integers, Sequences, FiniteSets

VARIABLES obj_func, lb, ub, dim, pop_size, max_iter,
          positions,
          alpha_pos, alpha_score, beta_pos, beta_score, delta_pos, delta_score,
          convergence_curve,
          pc, t, i, j, a, fitness,
          clipped, calls, seen, raised, returned

config  == <<obj_func, lb, ub, dim, pop_size, max_iter>>
leaders == <<alpha_pos, alpha_score, beta_pos, beta_score, delta_pos, delta_score>>
ghosts  == <<clipped, calls, seen, raised, returned>>
vars    == <<config, positions, leaders, convergence_curve, pc, t, i, j, a, fitness,
             ghosts>>

---------------------------------------------------------------------------
(* Bounds of the model: the largest max_iter, and the resolution of the   *)
(* random draws                                                            *)
MaxIter == 2
DrawDen == 2

(* The inputs of the constructor: the values of lower_bound and            *)
(* upper_bound, of dim and of wolf_count                                   *)
BoundValues == {-1, 0, 1}
Dims == {1}
WolfCounts == {3}

(* float("inf") *)
Inf == 1000000

Abs(x) == IF x < 0 THEN -x ELSE x
Min(x, y) == IF x < y THEN x ELSE y
Max(x, y) == IF x > y THEN x ELSE y

RECURSIVE SumSq(_)
SumSq(x) == IF Len(x) = 0 THEN 0 ELSE Head(x) * Head(x) + SumSq(Tail(x))

(* sphere_function: f(x) = sum(x^2) *)
sphere_function(x) == SumSq(x)

(* The objectives handed to the constructor.  "sphere" is the repository's *)
(* own; "const5" is the constant objective; "barrier" is the sphere with    *)
(* +infinity on negative coordinates; "noisy" may return any of NoisyValues *)
(* on any call; "faulty" is the sphere that may raise on any call.          *)
Objectives == {"sphere", "const5", "barrier", "noisy", "faulty"}
NoisyValues == {0, 1, 2, 3}

(* The values one call self.obj_func(x) can return *)
ObjValues(f, x) ==
    CASE f = "sphere" -> {sphere_function(x)}
      [] f = "const5" -> {5}
      [] f = "barrier" -> IF \E k \in 1..Len(x) : x[k] < 0
                            THEN {Inf} ELSE {sphere_function(x)}
      [] f = "noisy"  -> NoisyValues
      [] f = "faulty" -> {sphere_function(x)}

(* Whether the call self.obj_func(x) can raise instead *)
ObjMayRaise(f, x) == f = "faulty"

(* The objectives that return one finite value per position *)
DeterministicFinite(f) == f \in {"sphere", "const5", "faulty"}

---------------------------------------------------------------------------
(* numpy arrays.  A row slice positions[i, :] is a view of the population *)
(* matrix; .copy() detaches it.  base = 0 is an array that owns its data.  *)
ArrayValue(p) == IF p.base = 0 THEN p.data ELSE positions[p.base]

(* np.zeros(n) *)
Zeros(n) == [base |-> 0, data |-> [k \in 1..n |-> 0]]

(* array.copy() of a leader array *)
ArrayCopy(p) == [base |-> 0, data |-> ArrayValue(p)]

(* P[w, :] without the copy: a view of row w *)
RowView(P, w) == [base |-> w, data |-> P[w]]

(* P[w, :].copy(), P the population matrix *)
RowCopy(P, w) == [base |-> 0, data |-> P[w]]

Clip_Skipped(x, lo, hi) == x

(* np.clip(x, lo, hi) = minimum(maximum(x, lo), hi), elementwise *)
Clip(x, lo, hi) == [k \in 1..Len(x) |-> Min(Max(x[k], lo), hi)]

(* np.random.random(): a draw k/DrawDen of [0,1), k in 0..DrawDen-1 *)
RandomDraws == 0..(DrawDen - 1)

(* The grid point nearest to num / den, den > 0 *)
Round(num, den) == (2 * num + den) \div (2 * den)

(* np.random.uniform(lo, hi) = lo + (hi - lo) * random(), on the grid *)
Uniform(lo, hi) == {Round(lo * DrawDen + (hi - lo) * k, DrawDen) : k \in RandomDraws}

Vectors(n, S) == [1..n -> S]

---------------------------------------------------------------------------
(* GWO.__init__ *)
Construct(f, lo, hi, d, n, m) ==
    /\ obj_func = f /\ lb = lo /\ ub = hi /\ dim = d /\ pop_size = n /\ max_iter = m
    /\ positions \in [1..n -> Vectors(d, Uniform(lo, hi))]
    /\ alpha_pos = Zeros(d) /\ alpha_score = Inf
    /\ beta_pos = Zeros(d) /\ beta_score = Inf
    /\ delta_pos = Zeros(d) /\ delta_score = Inf
    /\ convergence_curve = <<>>
    /\ pc = "for_t" /\ t = 0 /\ i = 1 /\ j = 1 /\ a = 0 /\ fitness = 0
    /\ clipped = FALSE /\ calls = 0 /\ seen = {}
    /\ raised = FALSE /\ returned = FALSE

(* The configurations the documentation allows, over the objectives Objs *)
InitWith(Objs) ==
    \E f \in Objs, lo \in BoundValues, hi \in BoundValues,
       d \in Dims, n \in WolfCounts, m \in 1..MaxIter :
        /\ lo < hi
        /\ Construct(f, lo, hi, d, n, m)

Init == InitWith(Objectives)

(* The objectives whose result is a function of the position *)
InitRepeatable == InitWith(Objectives \ {"noisy"})

(* Every configuration the constructor accepts *)
InitAnyConfig ==
    \E f \in {"sphere", "faulty"}, lo \in BoundValues, hi \in BoundValues,
       d \in Dims \cup {0}, n \in WolfCounts \cup {0, 2}, m \in 0..MaxIter :
        Construct(f, lo, hi, d, n, m)

---------------------------------------------------------------------------
InRange_Inclusive(k, n) == k <= n

(* k in range(n) *)
InRange(k, n) == k < n

(* for t in range(self.max_iter) *)
LoopHead ==
    /\ pc = "for_t"
    /\ IF InRange(t, max_iter)
         THEN pc' = "eval" /\ i' = 1
         ELSE pc' = "return" /\ i' = i
    /\ UNCHANGED <<config, positions, leaders, convergence_curve, t, j, a, fitness,
                   ghosts>>

(* The three branches of the leader update *)
IsNewAlpha_AgainstBeta(fit) == fit < beta_score
IsNewAlpha_OrEqual(fit) == fit <= alpha_score
IsNewBeta_OrEqualAlpha(fit) == fit >= alpha_score /\ fit < beta_score
IsNewDelta_OnlyUpperTest(fit) == fit < delta_score

IsNewAlpha(fit) == fit < alpha_score
IsNewBeta(fit) == fit > alpha_score /\ fit < beta_score
IsNewDelta(fit) == fit > alpha_score /\ fit > beta_score /\ fit < delta_score

(* Leader update for wolf w with the given fitness; positions' is the      *)
(* population after the clip of row w.                                     *)
RankLeaders(fit, w) ==
    IF IsNewAlpha(fit) THEN
        /\ delta_score' = beta_score
        /\ delta_pos' = ArrayCopy(beta_pos)
        /\ beta_score' = alpha_score
        /\ beta_pos' = ArrayCopy(alpha_pos)
        /\ alpha_score' = fit
        /\ alpha_pos' = RowCopy(positions', w)
    ELSE IF IsNewBeta(fit) THEN
        /\ delta_score' = beta_score
        /\ delta_pos' = ArrayCopy(beta_pos)
        /\ beta_score' = fit
        /\ beta_pos' = RowCopy(positions', w)
        /\ UNCHANGED <<alpha_pos, alpha_score>>
    ELSE IF IsNewDelta(fit) THEN
        /\ delta_score' = fit
        /\ delta_pos' = RowCopy(positions', w)
        /\ UNCHANGED <<alpha_pos, alpha_score, beta_pos, beta_score>>
    ELSE UNCHANGED leaders

(* Body of the evaluation loop for wolf i: clip, evaluate, rank *)
Evaluate ==
    /\ pc = "eval" /\ i <= pop_size
    /\ positions' = [positions EXCEPT ![i] = Clip(positions[i], lb, ub)]
    /\ clipped' = (positions'[i] # positions[i])
    /\ calls' = calls + 1
    /\ fitness' \in ObjValues(obj_func, positions'[i])
    /\ seen' = IF \E e \in seen : e.fit = fitness'
                 THEN seen
                 ELSE seen \cup {[fit |-> fitness', pos |-> positions'[i]]}
    /\ RankLeaders(fitness', i)
    /\ i' = i + 1
    /\ UNCHANGED <<config, convergence_curve, pc, t, j, a, raised, returned>>

(* The failure is caught and the loop goes on with the next wolf *)
ObjectiveRaises_Swallowed ==
    /\ pc = "eval" /\ i <= pop_size
    /\ positions' = [positions EXCEPT ![i] = Clip(positions[i], lb, ub)]
    /\ clipped' = (positions'[i] # positions[i])
    /\ calls' = calls + 1
    /\ ObjMayRaise(obj_func, positions'[i])
    /\ raised' = TRUE
    /\ i' = i + 1
    /\ UNCHANGED <<config, leaders, convergence_curve, pc, t, j, a, fitness, seen,
                   returned>>

(* The objective raises on wolf i: the exception leaves optimize() *)
ObjectiveRaises ==
    /\ pc = "eval" /\ i <= pop_size
    /\ positions' = [positions EXCEPT ![i] = Clip(positions[i], lb, ub)]
    /\ clipped' = (positions'[i] # positions[i])
    /\ calls' = calls + 1
    /\ ObjMayRaise(obj_func, positions'[i])
    /\ raised' = TRUE
    /\ pc' = "raised"
    /\ UNCHANGED <<config, leaders, convergence_curve, t, i, j, a, fitness, seen,
                   returned>>

DecayValue_NextIndex(tt, m) == 2 * m - (tt + 1) * 2

(* a = 2 - t * (2 / self.max_iter), as the numerator over max_iter *)
DecayValue(tt, m) == 2 * m - tt * 2

Decay ==
    /\ pc = "eval" /\ i > pop_size
    /\ a' = DecayValue(t, max_iter)
    /\ i' = 1 /\ j' = 1
    /\ pc' = IF pop_size >= 1 /\ dim >= 1 THEN "update" ELSE "record"
    /\ UNCHANGED <<config, positions, leaders, convergence_curve, t, fitness, ghosts>>

(* A = 2 * a * r1 - a, as the numerator over max_iter * DrawDen *)
CoefA(an, k1) == an * (2 * k1 - DrawDen)

(* D = abs(C * L - x) with C = 2 * r2, as the numerator over DrawDen *)
DistD(L, x, k2) == Abs(2 * k2 * L - DrawDen * x)

(* X = L - A * D for one leader and one pair of draws, as the numerator   *)
(* over max_iter * DrawDen^2                                               *)
PullX(L, x, an, m, k1, k2) ==
    m * DrawDen * DrawDen * L - CoefA(an, k1) * DistD(L, x, k2)

LeaderPulls(L, x, an, m) ==
    {PullX(L, x, an, m, k1, k2) : k1 \in RandomDraws, k2 \in RandomDraws}

(* (X1 + X2 + X3) / 3 over a fresh pair of draws per leader, on the grid *)
UpdateOutcomes(x, La, Lb, Ld, an, m) ==
    LET X1 == LeaderPulls(La, x, an, m)
        X2 == LeaderPulls(Lb, x, an, m)
        X3 == LeaderPulls(Ld, x, an, m)
        X12 == {x1 + x2 : x1 \in X1, x2 \in X2}
    IN {Round(x12 + x3, 3 * m * DrawDen * DrawDen) : x12 \in X12, x3 \in X3}

(* Body of the position update for wolf i, coordinate j *)
UpdateCoord ==
    /\ pc = "update" /\ i <= pop_size /\ j <= dim
    /\ \E v \in UpdateOutcomes(positions[i][j], ArrayValue(alpha_pos)[j],
                               ArrayValue(beta_pos)[j], ArrayValue(delta_pos)[j],
                               a, max_iter) :
          positions' = [positions EXCEPT ![i][j] = v]
    /\ IF j < dim THEN j' = j + 1 /\ UNCHANGED <<i, pc>>
       ELSE IF i < pop_size THEN j' = 1 /\ i' = i + 1 /\ UNCHANGED pc
       ELSE j' = j /\ i' = i /\ pc' = "record"
    /\ UNCHANGED <<config, leaders, convergence_curve, t, a, fitness, ghosts>>

(* self.convergence_curve.append(self.alpha_score) *)
Record ==
    /\ pc = "record"
    /\ convergence_curve' = Append(convergence_curve, alpha_score)
    /\ t' = t + 1
    /\ pc' = "for_t"
    /\ UNCHANGED <<config, positions, leaders, i, j, a, fitness, ghosts>>

(* return self.convergence_curve *)
Return ==
    /\ pc = "return"
    /\ returned' = TRUE
    /\ pc' = "done"
    /\ UNCHANGED <<config, positions, leaders, convergence_curve, t, i, j, a,
                   fitness, clipped, calls, seen, raised>>

Next ==
    \/ LoopHead
    \/ Evaluate
    \/ ObjectiveRaises
    \/ Decay
    \/ UpdateCoord
    \/ Record
    \/ Return

Spec == Init /\ [][Next]_vars
SpecAnyConfig == InitAnyConfig /\ [][Next]_vars

(* optimize() is one sequential call: it keeps running until it leaves *)
SpecFair == InitRepeatable /\ [][Next]_vars /\ WF_vars(Next)

---------------------------------------------------------------------------
(* Properties *)

(* The configurations the documentation calls valid *)
ValidConfig ==
    /\ lb < ub
    /\ dim >= 1
    /\ pop_size >= 3
    /\ max_iter >= 1

InBox(x) == \A k \in 1..Len(x) : lb <= x[k] /\ x[k] <= ub

MinOf(S) == CHOOSE m \in S : \A y \in S : m <= y
Smallest(S) == IF S = {} THEN Inf ELSE MinOf(S)

(* The fitness values returned so far, and the finite ones among them *)
Fits == {e.fit : e \in seen}
FiniteFits == Fits \ {Inf}
FirstFit == Smallest(FiniteFits)
SecondFit == Smallest(FiniteFits \ {FirstFit})
ThirdFit == Smallest(FiniteFits \ {FirstFit, SecondFit})

(* The position of the first candidate that was evaluated to fitness f *)
FirstPos(f) == (CHOOSE e \in seen : e.fit = f).pos

LeaderValues == <<ArrayValue(alpha_pos), ArrayValue(beta_pos), ArrayValue(delta_pos)>>

(* C1: with an objective that never fails, optimize() terminates; when it  *)
(* has returned, the main loop has run exactly max_iter times and the      *)
(* curve has max_iter entries; one entry is appended per completed         *)
(* iteration.                                                              *)
C1_TerminatesWithFullCurve ==
    /\ [](Len(convergence_curve) = t)
    /\ [](pc = "done" => (t = max_iter /\ Len(convergence_curve) = max_iter /\ returned))
    /\ (obj_func # "faulty" => <>(pc = "done"))

C1_Witness ==
    /\ pc = "done" /\ pop_size = 3 /\ dim = 1 /\ max_iter = 1
    /\ Len(convergence_curve) = 1

(* C2: the convergence curve never increases from one entry to the next:   *)
(* alpha_score is only overwritten by a strictly smaller fitness, and an   *)
(* entry once appended is never modified.                                  *)
C2_CurveNonIncreasing ==
    /\ [](\A k \in 1..(Len(convergence_curve) - 1) :
            convergence_curve[k + 1] <= convergence_curve[k])
    /\ [][alpha_score' # alpha_score =>
            (alpha_score' = fitness' /\ fitness' < alpha_score)]_vars
    /\ [][/\ Len(convergence_curve') >= Len(convergence_curve)
          /\ \A k \in 1..Len(convergence_curve) :
                convergence_curve'[k] = convergence_curve[k]]_vars

C2_Witness ==
    /\ Len(convergence_curve) >= 2
    /\ convergence_curve[2] < convergence_curve[1]

(* C3: alpha_score <= beta_score <= delta_score in every state, from       *)
(* construction on.                                                        *)
C3_LeadersOrdered == alpha_score <= beta_score /\ beta_score <= delta_score

C3_Witness ==
    /\ alpha_score < beta_score /\ beta_score < delta_score /\ delta_score < Inf
    /\ t >= 1

(* C4: the row handed to the objective lies in [lb, ub] in every           *)
(* coordinate, and so does every row already evaluated in the running      *)
(* iteration.                                                              *)
C4_EvaluatedInBox ==
    /\ [][calls' = calls + 1 => InBox(positions'[i])]_vars
    /\ [](pc = "eval" => \A w \in 1..(i - 1) : InBox(positions[w]))

C4_Witness == clipped /\ t >= 1 /\ calls > pop_size /\ ~raised

(* C5: no objective evaluation and no completed run happens under an       *)
(* invalid configuration (the constructor rejects it).                     *)
C5_InvalidConfigRejected == (calls > 0 \/ returned) => ValidConfig

(* C6: once the objective has raised, nothing changes any more: no further *)
(* evaluation, no leader or position update, no curve entry, no return;    *)
(* and the failing call itself updates no leader and no curve entry.       *)
C6_FailureAborts ==
    /\ [](raised => ~returned)
    /\ [][raised => UNCHANGED vars]_vars
    /\ [][raised' => UNCHANGED <<leaders, convergence_curve, seen>>]_vars

C6_Witness == raised /\ pc = "raised" /\ Len(convergence_curve) >= 1 /\ calls > pop_size

(* C7: an evaluation whose fitness equals alpha_score or beta_score leaves *)
(* all leaders as they are; with the constant objective 5, alpha_score is  *)
(* 5 from the first evaluation on, every curve entry is 5, and Beta and    *)
(* Delta keep their initial (zero vector, +infinity).                      *)
C7_TiesChangeNothing ==
    /\ [][(calls' = calls + 1 /\ ~raised'
            /\ (fitness' = alpha_score \/ fitness' = beta_score))
          => UNCHANGED leaders]_vars
    /\ []((obj_func = "const5" /\ calls >= 1) =>
            /\ alpha_score = 5
            /\ \A k \in 1..Len(convergence_curve) : convergence_curve[k] = 5
            /\ beta_score = Inf /\ beta_pos = Zeros(dim)
            /\ delta_score = Inf /\ delta_pos = Zeros(dim))

C7_Witness ==
    /\ obj_func = "const5" /\ pc = "done" /\ max_iter = 2
    /\ convergence_curve = <<5, 5>>

(* C8: when optimize() has returned under a deterministic finite           *)
(* objective, alpha_score is the least fitness of all evaluations,         *)
(* alpha_pos is in the box and the objective maps it to alpha_score; the   *)
(* position update never changes a leader position.                        *)
C8_BestFound ==
    /\ []((pc = "done" /\ DeterministicFinite(obj_func)) =>
            /\ alpha_score < Inf
            /\ alpha_score = Smallest(Fits)
            /\ InBox(ArrayValue(alpha_pos))
            /\ ObjValues(obj_func, ArrayValue(alpha_pos)) = {alpha_score})
    /\ [][pc = "update" => LeaderValues' = LeaderValues]_vars

C8_Witness ==
    /\ pc = "done" /\ obj_func = "sphere"
    /\ alpha_score < convergence_curve[1]
    /\ \A w \in 1..pop_size : positions[w] # ArrayValue(alpha_pos)

(* C9: the leader scores are the smallest, second-smallest and             *)
(* third-smallest distinct finite fitness values returned so far, with     *)
(* +infinity in each slot that has no such value; a leader with a finite   *)
(* score holds the position of the first candidate evaluated to it.        *)
C9_ThreeSmallestDistinct ==
    /\ alpha_score = FirstFit
    /\ beta_score = SecondFit
    /\ delta_score = ThirdFit
    /\ alpha_score < Inf => ArrayValue(alpha_pos) = FirstPos(alpha_score)
    /\ beta_score < Inf => ArrayValue(beta_pos) = FirstPos(beta_score)
    /\ delta_score < Inf => ArrayValue(delta_pos) = FirstPos(delta_score)

C9_Witness ==
    /\ delta_score < Inf
    /\ Cardinality(FiniteFits) >= 4
    /\ calls > Cardinality(seen)
    /\ t >= 1

=============================================================================
